---- MODULE Spec2Model ----
(***************************************************************************)
(* A model of the Sense HAT -> MQTT bridge.                                *)
(*                                                                         *)
(*   sensehat_sensors.py  SenseHATSensors: construction against an I2C     *)
(*                        bus (HTS221 at 0x5F, LPS25H at 0x5C), capture of *)
(*                        the HTS221 factory calibration, four reads.      *)
(*   sensehat_mqtt.py     main: the publish loop, and the on_connect and   *)
(*                        on_disconnect callbacks of the network thread.   *)
(*                                                                         *)
(* Three specifications share the variables:                               *)
(*   Spec        the driver's life: construction statement by statement,   *)
(*               every bus transaction able to fail, then reads;           *)
(*   SpecDecode  a constructed driver over a wide set of calibration and   *)
(*               measurement registers, for the decoding arithmetic;       *)
(*   SpecMain    main() and the two callbacks, interleaved.                *)
(***************************************************************************)
EXTENDS Integers, Sequences, FiniteSets, TLC

VARIABLES
    path_exists,    \* os.path.exists("/dev/i2c-1"): the host's state
    dev,            \* the registers of the two chips: <<addr, register>> -> byte
    pc,             \* the statement of __init__ to run next, "ready" or "raised"
    bus_open,       \* self._bus holds an open SMBus handle
    cal_attr,       \* self._hts221_cal: "absent", "None" or "dict"
    hts221_cal,     \* the dict self._hts221_cal holds (empty unless "dict")
    loc,            \* the locals of _init_hts221 assigned so far
    log,            \* the bus transactions and sleeps of the construction, in order
    init_err,       \* the exception that left __init__
    last,           \* the last read operation called: transactions, outcome, value
    n_failed,       \* the read operations that raised so far
    mpc,            \* the statement of main() to run next
    connected,      \* userdata["connected"]
    discovery_done, \* main's discovery_done
    tries,          \* iterations done of the wait for the first connection
    cyc,            \* what the current poll cycle did so far
    prev,           \* what the poll cycle before it did
    slept,          \* the argument of the last time.sleep of the loop
    printed         \* the last message printed

vars == <<path_exists, dev, pc, bus_open, cal_attr, hts221_cal, loc, log, init_err,
          last, n_failed, mpc, connected, discovery_done, tries, cyc, prev, slept,
          printed>>

driver_vars == <<path_exists, dev, pc, bus_open, cal_attr, hts221_cal, loc, log,
                 init_err, last, n_failed>>

main_vars == <<mpc, connected, discovery_done, tries, cyc, prev, slept, printed>>

----------------------------------------------------------------------------
(* Program constants. *)

HTS221_ADDR == 95      \* 0x5F
LPS25H_ADDR == 92      \* 0x5C

(* Bounds of the model. *)

MaxFailedReads == 2    \* n_failed counts the failed reads up to here
S16Edge == 1           \* 16-bit samples: this far around 0 and from both ends
ByteEdge == 1          \* byte samples: this far from 0, around 128 and from 255

----------------------------------------------------------------------------
(* Floats.  A Python float is modelled as the rational n/d in lowest terms *)
(* with exact = TRUE when the binary64 value is that rational, and         *)
(* exact = FALSE when binary64 rounded on the way, so that the value is    *)
(* only near n/d.  Every magnitude of this program is below 2^31, so a     *)
(* rational is a binary64 exactly when its denominator is a power of two.  *)

Abs(x) == IF x < 0 THEN -x ELSE x

RECURSIVE GCD(_, _)
GCD(a, b) == IF b = 0 THEN a ELSE GCD(b, a % b)

RECURSIVE IsPow2(_)
IsPow2(d) == IF d = 1 THEN TRUE ELSE IF d % 2 = 1 THEN FALSE ELSE IsPow2(d \div 2)

Frac(n, d) ==
    LET s == IF d < 0 THEN -1 ELSE 1
        g == GCD(Abs(n), Abs(d))
    IN  [n |-> (s * n) \div g, d |-> (s * d) \div g]

Float(q, ok) == [n |-> q.n, d |-> q.d, exact |-> ok /\ IsPow2(q.d)]

FromInt(i) == [n |-> i, d |-> 1, exact |-> TRUE]

NoFloat == [n |-> 0, d |-> 0, exact |-> FALSE]    \* no value: d = 0

FAdd(a, b) ==
    IF a.d = 0 \/ b.d = 0 THEN NoFloat
    ELSE Float(Frac(a.n * b.d + b.n * a.d, a.d * b.d), a.exact /\ b.exact)

FSub(a, b) ==
    IF a.d = 0 \/ b.d = 0 THEN NoFloat
    ELSE Float(Frac(a.n * b.d - b.n * a.d, a.d * b.d), a.exact /\ b.exact)

FMul(a, b) ==
    IF a.d = 0 \/ b.d = 0 THEN NoFloat
    ELSE Float(Frac(a.n * b.n, a.d * b.d), a.exact /\ b.exact)

(* A division by zero raises ZeroDivisionError: no value. *)
FDiv(a, b) ==
    IF a.d = 0 \/ b.d = 0 \/ b.n = 0 THEN NoFloat
    ELSE Float(Frac(a.n * b.d, a.d * b.n), a.exact /\ b.exact)

----------------------------------------------------------------------------
(* The bus.  smbus2 is not code of this repository: read_byte_data returns  *)
(* the register, read_i2c_block_data the n registers from it on, and a      *)
(* failed transaction raises the OSError of the ioctl, which carries an     *)
(* errno and neither the chip's address nor the register.                   *)

NoError == [type |-> "none", chip |-> -1, register |-> -1]

BusError == [type |-> "OSError", chip |-> -1, register |-> -1]

FileNotFound == [type |-> "FileNotFoundError", chip |-> -1, register |-> -1]

ZeroDivision == [type |-> "ZeroDivisionError", chip |-> -1, register |-> -1]

Tx(op, addr, register, arg, ok) ==
    [op |-> op, addr |-> addr, register |-> register, arg |-> arg, ok |-> ok]

Sleep(ms) == Tx("sleep", -1, -1, ms, TRUE)

read_byte_data(addr, register) == dev[<<addr, register>>]

read_i2c_block_data(addr, register, n) ==
    [i \in 1..n |-> dev[<<addr, register + i - 1>>]]

Unpack_h(data) ==
    LET u == data[1] + 256 * data[2]
    IN  IF u >= 32768 THEN u - 65536 ELSE u

_read_s16(addr, register) == Unpack_h(read_i2c_block_data(addr, register, 2))

----------------------------------------------------------------------------
(* The device: an image of the registers the driver touches, built from     *)
(* the quantities the chips hold.                                           *)

Lo(v) == (v % 65536) % 256
Hi(v) == (v % 65536) \div 256

Image(p) ==
    (<<HTS221_ADDR, 48>> :> p.H0x2) @@ (<<HTS221_ADDR, 49>> :> p.H1x2) @@
    (<<HTS221_ADDR, 50>> :> p.t0l)  @@ (<<HTS221_ADDR, 51>> :> p.t1l)  @@
    (<<HTS221_ADDR, 53>> :> p.msb)  @@
    (<<HTS221_ADDR, 54>> :> Lo(p.H0o)) @@ (<<HTS221_ADDR, 55>> :> Hi(p.H0o)) @@
    (<<HTS221_ADDR, 58>> :> Lo(p.H1o)) @@ (<<HTS221_ADDR, 59>> :> Hi(p.H1o)) @@
    (<<HTS221_ADDR, 60>> :> Lo(p.T0o)) @@ (<<HTS221_ADDR, 61>> :> Hi(p.T0o)) @@
    (<<HTS221_ADDR, 62>> :> Lo(p.T1o)) @@ (<<HTS221_ADDR, 63>> :> Hi(p.T1o)) @@
    (<<HTS221_ADDR, 40>> :> Lo(p.hraw)) @@ (<<HTS221_ADDR, 41>> :> Hi(p.hraw)) @@
    (<<HTS221_ADDR, 42>> :> Lo(p.traw)) @@ (<<HTS221_ADDR, 43>> :> Hi(p.traw)) @@
    (<<LPS25H_ADDR, 40>> :> p.p0) @@ (<<LPS25H_ADDR, 41>> :> p.p1) @@
    (<<LPS25H_ADDR, 42>> :> p.p2) @@
    (<<LPS25H_ADDR, 43>> :> Lo(p.tpraw)) @@ (<<LPS25H_ADDR, 44>> :> Hi(p.tpraw))

Params(H0x2, H1x2, t0l, t1l, msb, H0o, H1o, T0o, T1o, hraw, traw, tpraw, p0, p1, p2) ==
    [H0x2 |-> H0x2, H1x2 |-> H1x2, t0l |-> t0l, t1l |-> t1l, msb |-> msb,
     H0o |-> H0o, H1o |-> H1o, T0o |-> T0o, T1o |-> T1o,
     hraw |-> hraw, traw |-> traw, tpraw |-> tpraw, p0 |-> p0, p1 |-> p1, p2 |-> p2]

----------------------------------------------------------------------------
(* The inputs: what the chips hold.                                         *)

S16Samples ==
    (-S16Edge..S16Edge) \cup (-32768..(-32768 + S16Edge))
        \cup ((32767 - S16Edge)..32767) \cup {100, 600, 1100}

ByteSamples ==
    (0..ByteEdge) \cup ((128 - ByteEdge)..(128 + ByteEdge)) \cup ((255 - ByteEdge)..255)

RefSamples == (0..ByteEdge) \cup ((255 - ByteEdge)..255) \cup {80, 180}

(* The raw count in an output register: at either anchor, or elsewhere. *)
Pick(sel, r0, r1) ==
    IF sel = 0 THEN r0 ELSE IF sel = 1 THEN r1 ELSE IF sel = 2 THEN 600 ELSE -32768

LifeInputs ==
    { Params(80, 180, 160, 240, msb, 100, H1o, 0, T1o, hraw, traw, 480, 255, 255, p2) :
        msb \in {0, 13}, H1o \in {1100, 100}, T1o \in {800, 0},
        hraw \in {600, 1100}, traw \in {0, -200}, p2 \in {255, 63} }

(* dev holds a device whose humidity registers vary. *)
HumidityDevice ==
    \E h0 \in RefSamples, h1 \in RefSamples, r0 \in S16Samples, r1 \in S16Samples,
       sel \in 0..3 :
        dev = Image(Params(h0, h1, 160, 240, 0, r0, r1, 0, 800, Pick(sel, r0, r1), 0, 0,
                           0, 0, 0))

(* dev holds a device whose temperature registers vary. *)
TemperatureDevice ==
    \E t0l \in {0, 160, 255}, t1l \in {0, 160, 255}, msb \in {0, 13, 246},
       r0 \in S16Samples, r1 \in S16Samples, sel \in 0..3 :
        dev = Image(Params(80, 180, t0l, t1l, msb, 100, 1100, r0, r1, 0,
                           Pick(sel, r0, r1), 0, 0, 0, 0))

(* dev holds a device whose pressure registers vary. *)
PressureDevice ==
    \E p0 \in ByteSamples, p1 \in ByteSamples, p2 \in ByteSamples, tpraw \in S16Samples :
        dev = Image(Params(80, 180, 160, 240, 0, 100, 1100, 0, 800, 0, 0, tpraw,
                           p0, p1, p2))

----------------------------------------------------------------------------
(* SenseHATSensors: construction.                                           *)

Empty == [k \in {} |-> 0]

(* Lines 47-50: the two 10-bit reference temperatures, in eighths of a degree. *)
Combine(l) ==
    LET T0_degC_x8 == ((l.t01_msb % 4) * 256) + l.t0_lsb
        T1_degC_x8 == (((l.t01_msb \div 4) % 4) * 256) + l.t1_lsb
    IN  l @@ [T0_degC_x8 |-> T0_degC_x8, T1_degC_x8 |-> T1_degC_x8,
              T0_degC |-> FDiv(FromInt(T0_degC_x8), FromInt(8)),
              T1_degC |-> FDiv(FromInt(T1_degC_x8), FromInt(8))]

(* MakeCal with the two humidity references left doubled. *)
MakeCal_unhalved(l) ==
    [H0_rH |-> FromInt(l.H0_rH_x2),
     H1_rH |-> FromInt(l.H1_rH_x2),
     T0_degC |-> l.T0_degC,
     T1_degC |-> l.T1_degC,
     H0_T0_OUT |-> l.H0_T0_OUT,
     H1_T0_OUT |-> l.H1_T0_OUT,
     T0_OUT |-> l.T0_OUT,
     T1_OUT |-> l.T1_OUT]

(* Lines 55-64: the dict stored in self._hts221_cal. *)
MakeCal(l) ==
    [H0_rH |-> FDiv(FromInt(l.H0_rH_x2), FromInt(2)),
     H1_rH |-> FDiv(FromInt(l.H1_rH_x2), FromInt(2)),
     T0_degC |-> l.T0_degC,
     T1_degC |-> l.T1_degC,
     H0_T0_OUT |-> l.H0_T0_OUT,
     H1_T0_OUT |-> l.H1_T0_OUT,
     T0_OUT |-> l.T0_OUT,
     T1_OUT |-> l.T1_OUT]

(* The single-byte calibration reads of lines 42-46 and the 16-bit ones of   *)
(* lines 51-54: the statement, the register, the local, the next statement.  *)
ByteReads ==
    << [at |-> "L42", register |-> 48, name |-> "H0_rH_x2", next |-> "L43"],
       [at |-> "L43", register |-> 49, name |-> "H1_rH_x2", next |-> "L44"],
       [at |-> "L44", register |-> 50, name |-> "t0_lsb",   next |-> "L45"],
       [at |-> "L45", register |-> 51, name |-> "t1_lsb",   next |-> "L46"],
       [at |-> "L46", register |-> 53, name |-> "t01_msb",  next |-> "L47"] >>

WordReads ==
    << [at |-> "L51", register |-> 54, name |-> "H0_T0_OUT", next |-> "L52"],
       [at |-> "L52", register |-> 58, name |-> "H1_T0_OUT", next |-> "L53"],
       [at |-> "L53", register |-> 60, name |-> "T0_OUT",    next |-> "L54"],
       [at |-> "L54", register |-> 62, name |-> "T1_OUT",    next |-> "L55"] >>

(* Raise with the exception swallowed: the construction completes. *)
Raise_swallowed(e) ==
    /\ pc' = "ready"
    /\ init_err' = e

Raise(e) ==
    /\ pc' = "raised"
    /\ init_err' = e

(* __init__ without the test of the device path. *)
__init__unchecked ==
    /\ pc = "L26"
    /\ \E ok \in BOOLEAN :
          IF ok
          THEN /\ bus_open' = TRUE
               /\ cal_attr' = "None"
               /\ pc' = "L39"
               /\ UNCHANGED init_err
          ELSE /\ pc' = "raised"
               /\ init_err' = BusError
               /\ UNCHANGED <<bus_open, cal_attr>>
    /\ UNCHANGED <<path_exists, dev, hts221_cal, loc, log, last, n_failed>>
    /\ UNCHANGED main_vars

(* Lines 24-33.  A missing device path raises before anything is opened;    *)
(* otherwise SMBus(bus_num) opens the device, which the host may refuse.     *)
__init__ ==
    /\ pc = "L26"
    /\ IF ~path_exists
       THEN /\ Raise(FileNotFound)
            /\ UNCHANGED <<bus_open, cal_attr>>
       ELSE \E ok \in BOOLEAN :
               IF ok
               THEN /\ bus_open' = TRUE
                    /\ cal_attr' = "None"
                    /\ pc' = "L39"
                    /\ UNCHANGED init_err
               ELSE /\ Raise(BusError)
                    /\ UNCHANGED <<bus_open, cal_attr>>
    /\ UNCHANGED <<path_exists, dev, hts221_cal, loc, log, last, n_failed>>
    /\ UNCHANGED main_vars

(* Line 39: power on, 1 Hz output, block data update. *)
_init_hts221_write ==
    /\ pc = "L39"
    /\ \E ok \in BOOLEAN :
          /\ log' = Append(log, Tx("write_byte_data", HTS221_ADDR, 32, 135, ok))
          /\ IF ok THEN pc' = "L40" /\ UNCHANGED init_err ELSE Raise(BusError)
    /\ UNCHANGED <<path_exists, dev, bus_open, cal_attr, hts221_cal, loc, last, n_failed>>
    /\ UNCHANGED main_vars

(* _init_hts221 without the settling wait. *)
_init_hts221_no_sleep ==
    /\ pc = "L40"
    /\ pc' = "L42"
    /\ UNCHANGED <<path_exists, dev, bus_open, cal_attr, hts221_cal, loc, log, init_err,
                   last, n_failed>>
    /\ UNCHANGED main_vars

(* Line 40. *)
_init_hts221_sleep ==
    /\ pc = "L40"
    /\ log' = Append(log, Sleep(50))
    /\ pc' = "L42"
    /\ UNCHANGED <<path_exists, dev, bus_open, cal_attr, hts221_cal, loc, init_err,
                   last, n_failed>>
    /\ UNCHANGED main_vars

(* Lines 42-46. *)
_init_hts221_read_byte ==
    /\ \E i \in 1..Len(ByteReads) : \E ok \in BOOLEAN :
          LET r == ByteReads[i] IN
          /\ pc = r.at
          /\ log' = Append(log, Tx("read_byte_data", HTS221_ADDR, r.register, 1, ok))
          /\ IF ok
             THEN /\ loc' = loc @@ (r.name :> read_byte_data(HTS221_ADDR, r.register))
                  /\ pc' = r.next
                  /\ UNCHANGED init_err
             ELSE /\ Raise(BusError)
                  /\ UNCHANGED loc
    /\ UNCHANGED <<path_exists, dev, bus_open, cal_attr, hts221_cal, last, n_failed>>
    /\ UNCHANGED main_vars

(* Lines 47-50. *)
_init_hts221_combine ==
    /\ pc = "L47"
    /\ loc' = Combine(loc)
    /\ pc' = "L51"
    /\ UNCHANGED <<path_exists, dev, bus_open, cal_attr, hts221_cal, log, init_err,
                   last, n_failed>>
    /\ UNCHANGED main_vars

(* Lines 51-54. *)
_init_hts221_read_s16 ==
    /\ \E i \in 1..Len(WordReads) : \E ok \in BOOLEAN :
          LET r == WordReads[i] IN
          /\ pc = r.at
          /\ log' = Append(log, Tx("read_i2c_block_data", HTS221_ADDR, r.register, 2, ok))
          /\ IF ok
             THEN /\ loc' = loc @@ (r.name :> _read_s16(HTS221_ADDR, r.register))
                  /\ pc' = r.next
                  /\ UNCHANGED init_err
             ELSE /\ Raise(BusError)
                  /\ UNCHANGED loc
    /\ UNCHANGED <<path_exists, dev, bus_open, cal_attr, hts221_cal, last, n_failed>>
    /\ UNCHANGED main_vars

(* Lines 55-64. *)
_init_hts221_store ==
    /\ pc = "L55"
    /\ hts221_cal' = MakeCal(loc)
    /\ cal_attr' = "dict"
    /\ pc' = "L68"
    /\ UNCHANGED <<path_exists, dev, bus_open, loc, log, init_err, last, n_failed>>
    /\ UNCHANGED main_vars

(* Line 68: power on, 25 Hz internal update. *)
_init_lps25h_write ==
    /\ pc = "L68"
    /\ \E ok \in BOOLEAN :
          /\ log' = Append(log, Tx("write_byte_data", LPS25H_ADDR, 32, 144, ok))
          /\ IF ok THEN pc' = "L69" /\ UNCHANGED init_err ELSE Raise(BusError)
    /\ UNCHANGED <<path_exists, dev, bus_open, cal_attr, hts221_cal, loc, last, n_failed>>
    /\ UNCHANGED main_vars

(* Line 69; __init__ returns and the caller holds the driver. *)
_init_lps25h_sleep ==
    /\ pc = "L69"
    /\ log' = Append(log, Sleep(20))
    /\ pc' = "ready"
    /\ UNCHANGED <<path_exists, dev, bus_open, cal_attr, hts221_cal, loc, init_err,
                   last, n_failed>>
    /\ UNCHANGED main_vars

----------------------------------------------------------------------------
(* SenseHATSensors: the decoding of the four reads.                         *)

(* _hts221_temp measuring the raw count from the wrong anchor. *)
_hts221_temp_wrong_anchor(T_OUT, c) ==
    LET denom == c.T1_OUT - c.T0_OUT
    IN  IF denom = 0
        THEN FDiv(FAdd(c.T0_degC, c.T1_degC), FromInt(2))
        ELSE FAdd(c.T0_degC,
                  FDiv(FMul(FromInt(T_OUT - c.T1_OUT), FSub(c.T1_degC, c.T0_degC)),
                       FromInt(denom)))

(* Lines 74-78. *)
_hts221_temp(T_OUT, c) ==
    LET denom == c.T1_OUT - c.T0_OUT
    IN  IF denom = 0
        THEN FDiv(FAdd(c.T0_degC, c.T1_degC), FromInt(2))
        ELSE FAdd(c.T0_degC,
                  FDiv(FMul(FromInt(T_OUT - c.T0_OUT), FSub(c.T1_degC, c.T0_degC)),
                       FromInt(denom)))

(* Line 86: 42.5 + raw / 480.0. *)
temperature_from_pressure(raw) ==
    FAdd(Float(Frac(85, 2), TRUE), FDiv(FromInt(raw), FromInt(480)))

(* humidity without the test for equal anchors. *)
humidity_unguarded(H_T_OUT, c) ==
    FAdd(c.H0_rH,
         FDiv(FMul(FromInt(H_T_OUT - c.H0_T0_OUT), FSub(c.H1_rH, c.H0_rH)),
              FromInt(c.H1_T0_OUT - c.H0_T0_OUT)))

(* Lines 91-95. *)
humidity(H_T_OUT, c) ==
    LET denom == c.H1_T0_OUT - c.H0_T0_OUT
    IN  IF denom = 0
        THEN FDiv(FAdd(c.H0_rH, c.H1_rH), FromInt(2))
        ELSE FAdd(c.H0_rH,
                  FDiv(FMul(FromInt(H_T_OUT - c.H0_T0_OUT), FSub(c.H1_rH, c.H0_rH)),
                       FromInt(denom)))

(* pressure without the sign extension. *)
pressure_unsigned(data) ==
    FDiv(FromInt(data[1] + (data[2] * 256) + (data[3] * 65536)), FromInt(4096))

(* Lines 100-103: data[0] | data[1] << 8 | data[2] << 16, sign-extended from *)
(* bit 23, over 4096.0.                                                      *)
pressure(data) ==
    LET raw == data[1] + (data[2] * 256) + (data[3] * 65536)
        ext == IF (raw \div 8388608) % 2 = 1 THEN raw - 16777216 ELSE raw
    IN  FDiv(FromInt(ext), FromInt(4096))

----------------------------------------------------------------------------
(* SenseHATSensors: the four reads.  Each issues one bus transaction; an    *)
(* exception of the bus leaves the method as it is, for no method has an    *)
(* except clause.                                                            *)

NoCall == [op |-> "none", tx |-> <<>>, outcome |-> "none", value |-> NoFloat,
           err |-> NoError]

Returned(op, tx, v) ==
    [op |-> op, tx |-> tx, outcome |-> "returned", value |-> v, err |-> NoError]

Raised(op, tx, e) ==
    [op |-> op, tx |-> tx, outcome |-> "raised", value |-> NoFloat, err |-> e]

Finish(op, tx, v) == IF v.d = 0 THEN Raised(op, tx, ZeroDivision) ELSE Returned(op, tx, v)

(* The outcomes of a bus transaction the model explores. *)
Outcomes == IF n_failed < MaxFailedReads THEN BOOLEAN ELSE {TRUE}

(* Call clearing the calibration anchors when the transaction fails. *)
Call_recalibrates(op, addr, register, n, oks, v) ==
    /\ pc = "ready"
    /\ \E ok \in oks :
          LET tx == << Tx("read_i2c_block_data", addr, register, n, ok) >>
          IN  /\ last' = IF ok THEN Finish(op, tx, v) ELSE Raised(op, tx, BusError)
              /\ hts221_cal' = IF ok THEN hts221_cal
                               ELSE [hts221_cal EXCEPT !.H0_T0_OUT = 0, !.T0_OUT = 0]
    /\ n_failed' = IF last'.outcome = "raised" THEN n_failed + 1 ELSE n_failed
    /\ UNCHANGED <<path_exists, dev, pc, bus_open, cal_attr, loc, log, init_err>>
    /\ UNCHANGED main_vars

Call(op, addr, register, n, oks, v) ==
    /\ pc = "ready"
    /\ \E ok \in oks :
          LET tx == << Tx("read_i2c_block_data", addr, register, n, ok) >>
          IN  last' = IF ok THEN Finish(op, tx, v) ELSE Raised(op, tx, BusError)
    /\ n_failed' = IF last'.outcome = "raised" THEN n_failed + 1 ELSE n_failed
    /\ UNCHANGED <<path_exists, dev, pc, bus_open, cal_attr, hts221_cal, loc, log,
                   init_err>>
    /\ UNCHANGED main_vars

(* Lines 71-81. *)
get_temperature_from_humidity(oks) ==
    Call("get_temperature_from_humidity", HTS221_ADDR, 42, 2, oks,
         _hts221_temp(_read_s16(HTS221_ADDR, 42), hts221_cal))

(* Lines 83-86. *)
get_temperature_from_pressure(oks) ==
    Call("get_temperature_from_pressure", LPS25H_ADDR, 43, 2, oks,
         temperature_from_pressure(_read_s16(LPS25H_ADDR, 43)))

(* Lines 88-95. *)
get_humidity(oks) ==
    Call("get_humidity", HTS221_ADDR, 40, 2, oks,
         humidity(_read_s16(HTS221_ADDR, 40), hts221_cal))

(* Lines 97-103. *)
get_pressure(oks) ==
    Call("get_pressure", LPS25H_ADDR, 40, 3, oks,
         pressure(read_i2c_block_data(LPS25H_ADDR, 40, 3)))

----------------------------------------------------------------------------
(* The driver's specifications.                                             *)

NoCycle == [reads |-> 0, status |-> FALSE, failed |-> "none", saw |-> FALSE]

MainIdle ==
    /\ mpc = "idle"
    /\ connected = FALSE
    /\ discovery_done = FALSE
    /\ tries = 0
    /\ cyc = NoCycle
    /\ prev = NoCycle
    /\ slept = "none"
    /\ printed = ""

Init ==
    /\ path_exists \in BOOLEAN
    /\ \E p \in LifeInputs : dev = Image(p)
    /\ pc = "L26"
    /\ bus_open = FALSE
    /\ cal_attr = "absent"
    /\ hts221_cal = Empty
    /\ loc = Empty
    /\ log = <<>>
    /\ init_err = NoError
    /\ last = NoCall
    /\ n_failed = 0
    /\ MainIdle

Next ==
    \/ __init__
    \/ _init_hts221_write
    \/ _init_hts221_sleep
    \/ _init_hts221_read_byte
    \/ _init_hts221_combine
    \/ _init_hts221_read_s16
    \/ _init_hts221_store
    \/ _init_lps25h_write
    \/ _init_lps25h_sleep
    \/ get_temperature_from_humidity(Outcomes)
    \/ get_temperature_from_pressure(Outcomes)
    \/ get_humidity(Outcomes)
    \/ get_pressure(Outcomes)

Spec == Init /\ [][Next]_vars

(* What a construction in which every transaction succeeds leaves behind.   *)
ConstructedLoc ==
    Combine([k \in {ByteReads[i].name : i \in 1..Len(ByteReads)} |->
                read_byte_data(HTS221_ADDR,
                    ByteReads[CHOOSE i \in 1..Len(ByteReads) : ByteReads[i].name = k].register)])
    @@ [k \in {WordReads[i].name : i \in 1..Len(WordReads)} |->
                _read_s16(HTS221_ADDR,
                    WordReads[CHOOSE i \in 1..Len(WordReads) : WordReads[i].name = k].register)]

ConstructedLog ==
    << Tx("write_byte_data", HTS221_ADDR, 32, 135, TRUE), Sleep(50) >>
    \o [i \in 1..Len(ByteReads) |->
            Tx("read_byte_data", HTS221_ADDR, ByteReads[i].register, 1, TRUE)]
    \o [i \in 1..Len(WordReads) |->
            Tx("read_i2c_block_data", HTS221_ADDR, WordReads[i].register, 2, TRUE)]
    \o << Tx("write_byte_data", LPS25H_ADDR, 32, 144, TRUE), Sleep(20) >>

InitDecode ==
    /\ path_exists = TRUE
    /\ (HumidityDevice \/ TemperatureDevice \/ PressureDevice)
    /\ pc = "ready"
    /\ bus_open = TRUE
    /\ cal_attr = "dict"
    /\ loc = ConstructedLoc
    /\ hts221_cal = MakeCal(loc)
    /\ log = ConstructedLog
    /\ init_err = NoError
    /\ last = NoCall
    /\ n_failed = 0
    /\ MainIdle

NextDecode ==
    \/ get_temperature_from_humidity({TRUE})
    \/ get_temperature_from_pressure({TRUE})
    \/ get_humidity({TRUE})
    \/ get_pressure({TRUE})

SpecDecode == InitDecode /\ [][NextDecode]_vars

(* Every constructed driver of Spec is in a state InitDecode describes: an  *)
(* invariant of Spec.                                                       *)
ConstructedAsDecoded ==
    pc = "ready" =>
        /\ loc = ConstructedLoc
        /\ hts221_cal = MakeCal(ConstructedLoc)
        /\ log = ConstructedLog
        /\ bus_open /\ cal_attr = "dict" /\ init_err = NoError

----------------------------------------------------------------------------
(* sensehat_mqtt.py: main() and the callbacks of the network thread.  The   *)
(* sensor object of main is sense_hat.SenseHat, and the client is paho's:   *)
(* neither is code of this repository, and any call of them may raise.      *)

LoopPcs == {"L155", "L156", "L160", "L161", "L162", "L163", "L171", "L174", "L180"}

(* client.loop_start() has run and the process has not exited. *)
NetworkThreadRuns == mpc \in ({"L143", "L146"} \cup LoopPcs)

(* The four sensor reads of lines 160-163. *)
SensorReads ==
    << [at |-> "L160", next |-> "L161"], [at |-> "L161", next |-> "L162"],
       [at |-> "L162", next |-> "L163"], [at |-> "L163", next |-> "L171"] >>

(* Lines 39-44. *)
on_connect ==
    /\ NetworkThreadRuns
    /\ \E reason_code \in {0, 5} :
          IF reason_code # 0
          THEN /\ printed' = "MQTT connection failed"
               /\ UNCHANGED connected
          ELSE /\ printed' = "Connected to MQTT broker"
               /\ connected' = TRUE
    /\ UNCHANGED <<mpc, discovery_done, tries, cyc, prev, slept>>
    /\ UNCHANGED driver_vars

(* Lines 47-49. *)
on_disconnect ==
    /\ NetworkThreadRuns
    /\ connected' = FALSE
    /\ printed' = "Disconnected from MQTT broker"
    /\ UNCHANGED <<mpc, discovery_done, tries, cyc, prev, slept>>
    /\ UNCHANGED driver_vars

(* Lines 122-123: an exception here is caught by nobody. *)
main_sense ==
    /\ mpc = "L122"
    /\ \E ok \in BOOLEAN :
          IF ok THEN mpc' = "L135" /\ UNCHANGED printed
          ELSE mpc' = "exit" /\ printed' = "Traceback"
    /\ UNCHANGED <<connected, discovery_done, tries, cyc, prev, slept>>
    /\ UNCHANGED driver_vars

(* Lines 125-140: the client, its callbacks, connect and loop_start. *)
main_connect ==
    /\ mpc = "L135"
    /\ \E ok \in BOOLEAN :
          IF ok THEN mpc' = "L143" /\ UNCHANGED printed
          ELSE mpc' = "exit" /\ printed' = "Cannot connect to MQTT broker"
    /\ UNCHANGED <<connected, discovery_done, tries, cyc, prev, slept>>
    /\ UNCHANGED driver_vars

(* Lines 142-145: at most 30 checks of the flag, half a second apart.  The  *)
(* loop variable is dead after the loop, and is reset on leaving it.         *)
main_wait ==
    /\ mpc = "L143"
    /\ IF tries < 30 /\ ~connected
       THEN /\ tries' = tries + 1
            /\ slept' = "0.5"
            /\ UNCHANGED mpc
       ELSE /\ tries' = 0
            /\ mpc' = "L146"
            /\ UNCHANGED slept
    /\ UNCHANGED <<connected, discovery_done, cyc, prev, printed>>
    /\ UNCHANGED driver_vars

(* Lines 146-151. *)
main_first_connection ==
    /\ mpc = "L146"
    /\ IF ~connected
       THEN mpc' = "exit" /\ printed' = "MQTT connection timeout"
       ELSE mpc' = "L155" /\ UNCHANGED printed
    /\ discovery_done' = FALSE
    /\ UNCHANGED <<connected, tries, cyc, prev, slept>>
    /\ UNCHANGED driver_vars

(* Line 155: the poll cycle begins with one test of the flag. *)
main_check ==
    /\ mpc = "L155"
    /\ cyc' = [NoCycle EXCEPT !.saw = connected]
    /\ mpc' = IF ~connected THEN "L156" ELSE "L160"
    /\ UNCHANGED <<connected, discovery_done, tries, prev, slept, printed>>
    /\ UNCHANGED driver_vars

(* Lines 156-157: time.sleep(5); continue. *)
main_not_connected ==
    /\ mpc = "L156"
    /\ slept' = "5"
    /\ prev' = cyc
    /\ cyc' = NoCycle
    /\ mpc' = "L155"
    /\ UNCHANGED <<connected, discovery_done, tries, printed>>
    /\ UNCHANGED driver_vars

(* OnException with no except clause: the exception ends main. *)
OnException_exits(what) ==
    /\ cyc' = [cyc EXCEPT !.failed = what,
                          !.reads = IF what = "read" THEN @ + 1 ELSE @]
    /\ printed' = "Traceback"
    /\ mpc' = "exit"

(* Lines 177-178: the except clause of the loop's try. *)
OnException(what) ==
    /\ cyc' = [cyc EXCEPT !.failed = what,
                          !.reads = IF what = "read" THEN @ + 1 ELSE @]
    /\ printed' = "Error reading Sense HAT or publishing"
    /\ mpc' = "L180"

(* Lines 160-163. *)
main_read ==
    /\ \E i \in 1..Len(SensorReads) : \E ok \in BOOLEAN :
          /\ mpc = SensorReads[i].at
          /\ IF ok
             THEN /\ cyc' = [cyc EXCEPT !.reads = @ + 1]
                  /\ mpc' = SensorReads[i].next
                  /\ UNCHANGED printed
             ELSE OnException("read")
    /\ UNCHANGED <<connected, discovery_done, tries, prev, slept>>
    /\ UNCHANGED driver_vars

(* Lines 165-173. *)
main_publish ==
    /\ mpc = "L171"
    /\ \E ok \in BOOLEAN :
          IF ok
          THEN /\ cyc' = [cyc EXCEPT !.status = TRUE]
               /\ mpc' = IF ~discovery_done THEN "L174" ELSE "L180"
               /\ UNCHANGED printed
          ELSE OnException("publish")
    /\ UNCHANGED <<connected, discovery_done, tries, prev, slept>>
    /\ UNCHANGED driver_vars

(* Lines 174-175. *)
main_discovery ==
    /\ mpc = "L174"
    /\ \E ok \in BOOLEAN :
          IF ok
          THEN /\ discovery_done' = TRUE
               /\ printed' = "Published discovery"
               /\ mpc' = "L180"
               /\ UNCHANGED cyc
          ELSE /\ OnException("discovery")
               /\ UNCHANGED discovery_done
    /\ UNCHANGED <<connected, tries, prev, slept>>
    /\ UNCHANGED driver_vars

(* Line 180. *)
main_sleep ==
    /\ mpc = "L180"
    /\ slept' = "update_interval"
    /\ prev' = cyc
    /\ cyc' = NoCycle
    /\ mpc' = "L155"
    /\ UNCHANGED <<connected, discovery_done, tries, printed>>
    /\ UNCHANGED driver_vars

InitMain ==
    /\ path_exists = TRUE
    /\ dev = Empty
    /\ pc = "L26"
    /\ bus_open = FALSE
    /\ cal_attr = "absent"
    /\ hts221_cal = Empty
    /\ loc = Empty
    /\ log = <<>>
    /\ init_err = NoError
    /\ last = NoCall
    /\ n_failed = 0
    /\ mpc = "L122"
    /\ connected = FALSE
    /\ discovery_done = FALSE
    /\ tries = 0
    /\ cyc = NoCycle
    /\ prev = NoCycle
    /\ slept = "none"
    /\ printed = ""

NextMain ==
    \/ on_connect
    \/ on_disconnect
    \/ main_sense
    \/ main_connect
    \/ main_wait
    \/ main_first_connection
    \/ main_check
    \/ main_not_connected
    \/ main_read
    \/ main_publish
    \/ main_discovery
    \/ main_sleep

SpecMain == InitMain /\ [][NextMain]_vars

----------------------------------------------------------------------------
(* What the claims speak of, stated from the registers of the device and    *)
(* not from the driver's state.                                             *)

Reg(addr, register) == dev[<<addr, register>>]

(* The signed little-endian 16-bit value at a register and the next. *)
S16At(addr, register) ==
    Reg(addr, register) + (256 * Reg(addr, register + 1))
        - (IF Reg(addr, register + 1) >= 128 THEN 65536 ELSE 0)

Exact(q) == [n |-> q.n, d |-> q.d, exact |-> TRUE]

Rational(f) == [n |-> f.n, d |-> f.d]

DevH0x2 == Reg(HTS221_ADDR, 48)
DevH1x2 == Reg(HTS221_ADDR, 49)
DevT0x8 == ((Reg(HTS221_ADDR, 53) % 4) * 256) + Reg(HTS221_ADDR, 50)
DevT1x8 == (((Reg(HTS221_ADDR, 53) \div 4) % 4) * 256) + Reg(HTS221_ADDR, 51)
DevH0Out == S16At(HTS221_ADDR, 54)
DevH1Out == S16At(HTS221_ADDR, 58)
DevT0Out == S16At(HTS221_ADDR, 60)
DevT1Out == S16At(HTS221_ADDR, 62)
DevHRaw == S16At(HTS221_ADDR, 40)
DevTRaw == S16At(HTS221_ADDR, 42)
DevTPRaw == S16At(LPS25H_ADDR, 43)

(* The 24-bit two's-complement value of the pressure registers. *)
DevPRaw ==
    LET sum == Reg(LPS25H_ADDR, 40) + (256 * Reg(LPS25H_ADDR, 41))
                  + (65536 * Reg(LPS25H_ADDR, 42))
    IN  IF Reg(LPS25H_ADDR, 42) >= 128 THEN sum - 16777216 ELSE sum

(* The line through (r0, v0/scale) and (r1, v1/scale) at raw, as one        *)
(* fraction; the midpoint of the two values when r0 = r1.                   *)
Interpolated(v0, v1, scale, r0, r1, raw) ==
    IF r1 = r0 THEN Frac(v0 + v1, 2 * scale)
    ELSE Frac((v0 * (r1 - r0)) + ((raw - r0) * (v1 - v0)), scale * (r1 - r0))

Decoded(op) ==
    CASE op = "get_humidity" ->
            Interpolated(DevH0x2, DevH1x2, 2, DevH0Out, DevH1Out, DevHRaw)
      [] op = "get_temperature_from_humidity" ->
            Interpolated(DevT0x8, DevT1x8, 8, DevT0Out, DevT1Out, DevTRaw)
      [] op = "get_temperature_from_pressure" -> Frac((85 * 240) + DevTPRaw, 480)
      [] op = "get_pressure" -> Frac(DevPRaw, 4096)

CapturedCal ==
    [H0_rH |-> Exact(Frac(DevH0x2, 2)), H1_rH |-> Exact(Frac(DevH1x2, 2)),
     T0_degC |-> Exact(Frac(DevT0x8, 8)), T1_degC |-> Exact(Frac(DevT1x8, 8)),
     H0_T0_OUT |-> DevH0Out, H1_T0_OUT |-> DevH1Out,
     T0_OUT |-> DevT0Out, T1_OUT |-> DevT1Out]

CalKeys == {"H0_rH", "H1_rH", "T0_degC", "T1_degC", "H0_T0_OUT", "H1_T0_OUT",
            "T0_OUT", "T1_OUT"}

(* The order of the construction's bus traffic: operation, chip, register. *)
InitOrder ==
    << <<"write_byte_data", HTS221_ADDR, 32>>, <<"sleep", -1, -1>>,
       <<"read_byte_data", HTS221_ADDR, 48>>, <<"read_byte_data", HTS221_ADDR, 49>>,
       <<"read_byte_data", HTS221_ADDR, 50>>, <<"read_byte_data", HTS221_ADDR, 51>>,
       <<"read_byte_data", HTS221_ADDR, 53>>,
       <<"read_i2c_block_data", HTS221_ADDR, 54>>,
       <<"read_i2c_block_data", HTS221_ADDR, 58>>,
       <<"read_i2c_block_data", HTS221_ADDR, 60>>,
       <<"read_i2c_block_data", HTS221_ADDR, 62>>,
       <<"write_byte_data", LPS25H_ADDR, 32>>, <<"sleep", -1, -1>> >>

----------------------------------------------------------------------------
(* C1.  After a successful construction, whatever reads are called and      *)
(* whichever of their bus transactions fail, the calibration record is the  *)
(* one captured at initialization, no initialization transaction is issued  *)
(* again, and a read whose own transaction succeeds returns its decoded     *)
(* value, also after earlier reads failed.                                  *)
C1_CalibrationUntouched ==
    pc = "ready" =>
        /\ cal_attr = "dict"
        /\ hts221_cal = CapturedCal
        /\ Len(log) = Len(InitOrder)
        /\ (last.outcome = "returned" => Rational(last.value) = Decoded(last.op))
        /\ (last.op # "none" /\ last.tx[1].ok => last.outcome = "returned")

C1_Witness ==
    /\ pc = "ready"
    /\ n_failed >= 1
    /\ last.outcome = "returned"
    /\ last.op = "get_humidity"

(* C2.  A failed transaction of the initialization sequence ends the        *)
(* construction with that error: it is the last transaction issued, no      *)
(* transaction is issued twice, and a driver on which a read can be called  *)
(* holds all eight calibration fields.                                      *)
C2_InitFailureIsFatal ==
    /\ \A i \in 1..Len(log) :
          ~log[i].ok => /\ i = Len(log)
                        /\ pc = "raised"
                        /\ init_err = BusError
    /\ \A i, j \in 1..Len(log) :
          (log[i].op # "sleep" /\ i # j) =>
              <<log[i].op, log[i].addr, log[i].register>>
                  # <<log[j].op, log[j].addr, log[j].register>>
    /\ (pc = "ready" => DOMAIN hts221_cal = CalKeys /\ \A i \in 1..Len(log) : log[i].ok)
    /\ (last.op # "none" => pc = "ready")
    /\ (DOMAIN hts221_cal # {} => DOMAIN hts221_cal = CalKeys)

C2_Witness ==
    /\ pc = "raised"
    /\ Len(log) = 9
    /\ ~log[9].ok
    /\ cal_attr = "None"

(* C3.  Construction against a missing device path raises FileNotFoundError, *)
(* which is not the error of a failed transaction, and changes nothing: no   *)
(* bus handle, no transaction, no calibration record.                        *)
C3_MissingPath ==
    ~path_exists =>
        /\ pc \in {"L26", "raised"}
        /\ ~bus_open
        /\ log = <<>>
        /\ cal_attr = "absent"
        /\ hts221_cal = Empty
        /\ loc = Empty
        /\ last = NoCall
        /\ (pc = "raised" => init_err = FileNotFound /\ init_err.type # BusError.type)

C3_Witness == ~path_exists /\ pc = "raised"

(* C4.  A read whose bus transaction fails issues no further transaction,   *)
(* returns no value, and raises an error that identifies the chip and the   *)
(* register that failed.                                                    *)
C4_ReadErrorNamesRegister ==
    last.outcome = "raised" =>
        /\ Len(last.tx) = 1
        /\ last.value = NoFloat
        /\ last.err.chip = last.tx[1].addr
        /\ last.err.register = last.tx[1].register

(* C5.  With distinct anchor counts, a raw value equal to an anchor decodes *)
(* to exactly that anchor's reference value, for temperature and humidity.  *)
C5_AnchorsExact ==
    (pc = "ready" /\ last.outcome = "returned") =>
        /\ (last.op = "get_temperature_from_humidity" /\ DevT1Out # DevT0Out) =>
              /\ (DevTRaw = DevT0Out => last.value = Exact(Frac(DevT0x8, 8)))
              /\ (DevTRaw = DevT1Out => last.value = Exact(Frac(DevT1x8, 8)))
        /\ (last.op = "get_humidity" /\ DevH1Out # DevH0Out) =>
              /\ (DevHRaw = DevH0Out => last.value = Exact(Frac(DevH0x2, 2)))
              /\ (DevHRaw = DevH1Out => last.value = Exact(Frac(DevH1x2, 2)))

C5_Witness ==
    /\ last.op = "get_temperature_from_humidity"
    /\ last.outcome = "returned"
    /\ DevT1Out # DevT0Out
    /\ DevTRaw = DevT1Out
    /\ DevT1x8 # DevT0x8

(* C6.  With equal anchor counts, temperature and humidity decode to the    *)
(* midpoint of the two reference values for every raw value, and the read   *)
(* raises nothing.                                                          *)
C6_DegenerateMidpoint ==
    pc = "ready" =>
        /\ (last.op = "get_temperature_from_humidity" /\ DevT1Out = DevT0Out) =>
              /\ last.outcome = "returned"
              /\ last.value = Exact(Frac(DevT0x8 + DevT1x8, 16))
        /\ (last.op = "get_humidity" /\ DevH1Out = DevH0Out) =>
              /\ last.outcome = "returned"
              /\ last.value = Exact(Frac(DevH0x2 + DevH1x2, 4))

C6_Witness ==
    /\ last.op = "get_humidity"
    /\ last.outcome = "returned"
    /\ DevH1Out = DevH0Out
    /\ DevHRaw # DevH0Out
    /\ DevH0x2 # DevH1x2

(* C7.  get_pressure returns n/4096 for the 24-bit two's-complement value n *)
(* of the three bytes read, least significant first; n lies in              *)
(* -2^23 .. 2^23 - 1; bytes 0,0,0 give 0 and bytes 255,255,255 give -1/4096. *)
C7_PressureDecode ==
    (pc = "ready" /\ last.op = "get_pressure") =>
        /\ last.outcome = "returned"
        /\ last.value = Exact(Frac(DevPRaw, 4096))
        /\ DevPRaw \in -8388608..8388607
        /\ (DevPRaw = 0 => last.value = FromInt(0))
        /\ ((\A r \in 40..42 : Reg(LPS25H_ADDR, r) = 255) =>
               last.value = [n |-> -1, d |-> 4096, exact |-> TRUE])

C7_Witness ==
    /\ last.op = "get_pressure"
    /\ last.outcome = "returned"
    /\ \A r \in 40..42 : Reg(LPS25H_ADDR, r) = 255

(* C8.  The humidity calibration get_humidity uses is the one read at       *)
(* initialization: the bytes at 0x30 and 0x31 halved, and the signed        *)
(* little-endian 16-bit values at 0x36 and 0x3A; with 80, 180, 100 and 1100 *)
(* there, a humidity register of 600 reads as exactly 65.0.                 *)
C8_HumidityRoundTrip ==
    pc = "ready" =>
        /\ hts221_cal.H0_rH = Exact(Frac(DevH0x2, 2))
        /\ hts221_cal.H1_rH = Exact(Frac(DevH1x2, 2))
        /\ hts221_cal.H0_T0_OUT = DevH0Out
        /\ hts221_cal.H1_T0_OUT = DevH1Out
        /\ (/\ last.op = "get_humidity" /\ last.outcome = "returned"
            /\ DevH0x2 = 80 /\ DevH1x2 = 180 /\ DevH0Out = 100 /\ DevH1Out = 1100
            /\ DevHRaw = 600)
              => last.value = FromInt(65)

C8_Witness ==
    /\ last.op = "get_humidity" /\ last.outcome = "returned"
    /\ DevH0x2 = 80 /\ DevH1x2 = 180 /\ DevH0Out = 100 /\ DevH1Out = 1100
    /\ DevHRaw = 600

(* C9.  The construction's bus traffic is in this order: the HTS221 control *)
(* write, the settling wait, the nine calibration reads, the LPS25H control *)
(* write, its wait; the calibration is stored after all its reads and       *)
(* before the LPS25H write, and a read operation runs only after all this.  *)
C9_InitOrder ==
    /\ Len(log) <= Len(InitOrder)
    /\ \A i \in 1..Len(log) :
          <<log[i].op, log[i].addr, log[i].register>> = InitOrder[i]
    /\ (cal_attr = "dict" => Len(log) >= 11)
    /\ (Len(log) >= 12 => cal_attr = "dict")
    /\ (last.op # "none" =>
           /\ Len(log) = Len(InitOrder)
           /\ \A i \in 1..Len(log) : log[i].ok
           /\ cal_attr = "dict")

C9_Witness == last.op # "none" /\ Len(log) = Len(InitOrder)

----------------------------------------------------------------------------
(* C10.  In the publish loop a failure of a sensor read or of the publish   *)
(* never ends the loop: the cycle publishes no status message, the loop     *)
(* waits update_interval, and the next cycle that finds the broker          *)
(* connected starts the four sensor reads again, each attempted unless an   *)
(* earlier one of that cycle raised; a cycle that finds the connected flag  *)
(* false at its test performs no sensor read and no publish.                *)
C10_State ==
    /\ (cyc.failed \in {"read", "publish"} => ~cyc.status)
    /\ (cyc.failed # "none" => mpc = "L180")
    /\ ((cyc.reads > 0 \/ cyc.status) => cyc.saw)
    /\ (~cyc.saw => mpc \notin {"L160", "L161", "L162", "L163", "L171", "L174", "L180"})
    /\ (mpc \in {"L171", "L174"} => cyc.reads = 4)
    /\ \A i \in 1..Len(SensorReads) : mpc = SensorReads[i].at => cyc.reads = i - 1
    /\ (cyc.failed = "read" => cyc.reads \in 1..4)
    /\ ((mpc = "L155" /\ prev.failed # "none") => slept = "update_interval")

C10_Step ==
    /\ (mpc \in LoopPcs => mpc' \in LoopPcs)
    /\ ((mpc = "L180" /\ mpc' # mpc) => (mpc' = "L155" /\ slept' = "update_interval"))
    /\ ((mpc = "L155" /\ mpc' # mpc) => mpc' = IF connected THEN "L160" ELSE "L156")
    /\ ((mpc = "L156" /\ mpc' # mpc) => (mpc' = "L155" /\ prev'.reads = 0 /\ ~prev'.status))
    /\ (cyc'.failed # cyc.failed /\ cyc'.failed # "none" => mpc' = "L180")

C10_LoopSurvivesFailure == [](C10_State) /\ [][C10_Step]_vars

C10_Witness ==
    /\ prev.failed = "read"
    /\ slept = "update_interval"
    /\ mpc = "L171"
    /\ cyc.reads = 4

(* C10 as first stated: the same, with no sensor read and no publish at    *)
(* any moment at which the connected flag is false.                         *)
C10_FlagStep ==
    (cyc'.reads > cyc.reads \/ (cyc'.status /\ ~cyc.status)) => connected

C10_AsStated == [](C10_State) /\ [][C10_Step /\ C10_FlagStep]_vars

====
